---- MODULE Spec2Model ----
(***************************************************************************)
(* A model of tatlin's GcodeModel (src/tatlin/lib/gl/gcodemodel.py): the   *)
(* mesh build (load_data), the movement classifier (movement_color), the   *)
(* draw planner (_display_movements) and the colour picking codec          *)
(* (_render_for_picking / pick_movement).                                  *)
(*                                                                         *)
(* Lengths are integers in units of half a micron (0.5e-6), so that the    *)
(* generator's tolerance 1e-6 is the integer Eps = 2 and a distance just   *)
(* below it (1) and exactly on it (2) are both representable.              *)
(***************************************************************************)
EXTENDS Integers, Sequences, FiniteSets, TLC

(***************************************************************************)
(* Bounds of the model.                                                    *)
(***************************************************************************)
\* Movement records in one stream, the origin record included.
MaxMovements == 4

\* Layers in one stream: every layer but an empty one holds a record.
MaxLayers == MaxMovements - 1

(***************************************************************************)
(* Program constants.                                                      *)
(***************************************************************************)
\* cylinder_sides = 8
cylinder_sides == 8

\* the tolerance 1e-6 of _generate_cylinder, in half microns
Eps == 2

\* Movement.FLAG_* (tatlin.lib.model.gcode.parser): single, distinct bits.
FLAG_PERIMETER == 1
FLAG_PERIMETER_OUTER == 2
FLAG_LOOP == 4
FLAG_EXTRUDER_ON == 16

\* num_cylinder_vertices = cylinder_sides * 6
num_cylinder_vertices == cylinder_sides * 6

\* the three vertices of GcodeModel.arrow and of layer_entry_marker, the six
\* of layer_exit_marker
arrow == <<1, 2, 3>>
layer_entry_marker == <<1, 2, 3>>
layer_exit_marker == <<1, 2, 3, 4, 5, 6>>

(***************************************************************************)
(* Helpers.                                                                *)
(***************************************************************************)
Max(a, b) == IF a >= b THEN a ELSE b

Min(a, b) == IF a <= b THEN a ELSE b

\* Python's set(list)
Range(seq) == {seq[i] : i \in 1..Len(seq)}

\* Python's a & b on non-negative integers
RECURSIVE BitAnd(_, _)
BitAnd(a, b) ==
    IF a = 0 \/ b = 0 THEN 0
    ELSE (a % 2) * (b % 2) + 2 * BitAnd(a \div 2, b \div 2)

\* the concatenation of a sequence of sequences (list.extend, repeated)
RECURSIVE Flatten(_)
Flatten(ss) == IF ss = <<>> THEN <<>> ELSE Head(ss) \o Flatten(Tail(ss))

\* numpy.linalg.norm(end - start) squared
DistSq(start, end) ==
    (end[1] - start[1]) * (end[1] - start[1])
    + (end[2] - start[2]) * (end[2] - start[2])
    + (end[3] - start[3]) * (end[3] - start[3])

(***************************************************************************)
(* _generate_cylinder: the vertices and normals of one segment. A vertex   *)
(* is <<point, ring angle index>> (the point plus radius * the normal at   *)
(* that angle), a normal is <<direction, ring angle index>>.               *)
(***************************************************************************)
\* length < 1e-6
IsDegenerateLe(start, end) == DistSq(start, end) <= Eps * Eps

IsDegenerate(start, end) == DistSq(start, end) < Eps * Eps

Direction(start, end) ==
    <<end[1] - start[1], end[2] - start[2], end[3] - start[3]>>

\* the six vertices of side i: triangle v1_start, v2_start, v1_end and
\* triangle v2_start, v2_end, v1_end
SideVertices(start, end, i, sides) ==
    LET a1 == i
        a2 == (i + 1) % sides
    IN  << <<start, a1>>, <<start, a2>>, <<end, a1>>,
           <<start, a2>>, <<end, a2>>, <<end, a1>> >>

SideNormals(start, end, i, sides) ==
    LET d == Direction(start, end)
        a1 == i
        a2 == (i + 1) % sides
    IN  << <<d, a1>>, <<d, a2>>, <<d, a1>>,
           <<d, a2>>, <<d, a2>>, <<d, a1>> >>

generate_cylinder_one_triangle(start, end, sides) ==
    IF IsDegenerate(start, end)
    THEN [vertices |-> <<>>, normals |-> <<>>]
    ELSE [vertices |-> Flatten([i \in 1..sides |->
                                   SubSeq(SideVertices(start, end, i - 1, sides),
                                          1, 3)]),
          normals |-> Flatten([i \in 1..sides |->
                                  SubSeq(SideNormals(start, end, i - 1, sides),
                                         1, 3)])]

generate_cylinder(start, end, sides) ==
    IF IsDegenerate(start, end)
    THEN [vertices |-> <<>>, normals |-> <<>>]
    ELSE [vertices |-> Flatten([i \in 1..sides |->
                                   SideVertices(start, end, i - 1, sides)]),
          normals |-> Flatten([i \in 1..sides |->
                                  SideNormals(start, end, i - 1, sides)])]

(***************************************************************************)
(* movement_color.                                                         *)
(***************************************************************************)
gray == "gray"
cyan == "cyan"
green == "green"
yellow == "yellow"
red == "red"

Colors == {gray, cyan, green, yellow, red}

movement_color_loop_first(move) ==
    LET extruder_on ==
            BitAnd(move.flags, FLAG_EXTRUDER_ON) # 0 \/ move.delta_e > 0
        outer_perimeter ==
            /\ BitAnd(move.flags, FLAG_PERIMETER) # 0
            /\ BitAnd(move.flags, FLAG_PERIMETER_OUTER) # 0
    IN  IF extruder_on /\ outer_perimeter THEN cyan
        ELSE IF extruder_on /\ BitAnd(move.flags, FLAG_LOOP) # 0 THEN yellow
        ELSE IF extruder_on /\ BitAnd(move.flags, FLAG_PERIMETER) # 0 THEN green
        ELSE IF extruder_on THEN red
        ELSE gray

movement_color_flag_only(move) ==
    LET extruder_on == BitAnd(move.flags, FLAG_EXTRUDER_ON) # 0
        outer_perimeter ==
            /\ BitAnd(move.flags, FLAG_PERIMETER) # 0
            /\ BitAnd(move.flags, FLAG_PERIMETER_OUTER) # 0
    IN  IF extruder_on /\ outer_perimeter THEN cyan
        ELSE IF extruder_on /\ BitAnd(move.flags, FLAG_PERIMETER) # 0 THEN green
        ELSE IF extruder_on /\ BitAnd(move.flags, FLAG_LOOP) # 0 THEN yellow
        ELSE IF extruder_on THEN red
        ELSE gray

movement_color(move) ==
    LET extruder_on ==
            BitAnd(move.flags, FLAG_EXTRUDER_ON) # 0 \/ move.delta_e > 0
        outer_perimeter ==
            /\ BitAnd(move.flags, FLAG_PERIMETER) # 0
            /\ BitAnd(move.flags, FLAG_PERIMETER_OUTER) # 0
    IN  IF extruder_on /\ outer_perimeter THEN cyan
        ELSE IF extruder_on /\ BitAnd(move.flags, FLAG_PERIMETER) # 0 THEN green
        ELSE IF extruder_on /\ BitAnd(move.flags, FLAG_LOOP) # 0 THEN yellow
        ELSE IF extruder_on THEN red
        ELSE gray

(***************************************************************************)
(* The inputs: movement streams. A stream is a sequence of layers, a layer *)
(* a sequence of Movement records; the first record of the first layer is  *)
(* the starting point.                                                     *)
(***************************************************************************)
\* Movement.v: points on the Z axis at 0, 0.5e-6 and 1.5e-6
Points == {<<0, 0, 0>>, <<0, 0, 1>>, <<0, 0, 3>>}

\* Movement.flags and Movement.delta_e of the records of a stream
MoveFlags == {FLAG_EXTRUDER_ON + FLAG_PERIMETER}

MoveDeltas == {1}

RECURSIVE SumTo(_, _)
SumTo(sh, n) == IF n = 0 THEN 0 ELSE sh[n] + SumTo(sh, n - 1)

\* the layer lengths of a stream: at most MaxLayers layers, MaxMovements records
Shapes ==
    {sh \in UNION {[1..L -> 0..MaxMovements] : L \in 0..MaxLayers} :
        SumTo(sh, Len(sh)) <= MaxMovements}

\* n records in source order: the k-th record comes from line k
Records(points, n) ==
    {[k \in 1..n |->
         [v |-> ps[k], flags |-> fs[k], delta_e |-> ds[k], line_no |-> k]] :
        ps \in [1..n -> points], fs \in [1..n -> MoveFlags],
        ds \in [1..n -> MoveDeltas]}

\* the records f cut into layers of the lengths sh
Split(f, sh) ==
    [l \in 1..Len(sh) |->
        [k \in 1..sh[l] |-> f[SumTo(sh, l - 1) + k]]]

StreamsOver(points) ==
    UNION {{Split(f, sh) : f \in Records(points, SumTo(sh, Len(sh)))} :
              sh \in Shapes}

Streams == StreamsOver(Points)

\* the callback argument of load_data: None, a function that returns, or a
\* function that may raise (a caller cancelling the build)
Callbacks == {"none", "returns", "raises"}

\* what a call of the callback can do
Outcomes(cb) == IF cb = "raises" THEN {"returns", "raises"} ELSE {"returns"}

(***************************************************************************)
(* The state.                                                              *)
(***************************************************************************)
VARIABLES
    pc,                     \* "new", "loading", "ready", "failed"
    raised,                 \* the exception that left load_data, or "none"
    model_data,             \* the caller's list of layers (load_data's argument)
    given,                  \* that list as it was when load_data was called
    callback,               \* load_data's callback argument
    progress,               \* the calls made to callback: <<done, total>>
    layer_idx,              \* load_data: the layers finished so far
    start, prev,            \* load_data: the starting point, the previous movement
    vertex_list, normal_list, color_list,
    arrow_list, arrow_endpoints, layer_markers_list,
    layer_stops, layer_heights, layer_marker_stops,
    movement_line_numbers, selected_lines,
    at_entry,               \* the model's attributes when load_data was entered
    vertices, normals, colors, arrows, layer_markers,
    max_layers, num_layers_to_draw, arrows_enabled,
    view,                   \* the arguments of the last display, and offset_z
    movement_calls,         \* glDrawArrays calls of _display_movements
    highlight_calls,        \* ... of _display_selection_highlight
    arrow_calls,            \* ... of _display_arrows
    marker_calls,           \* ... of _display_layer_markers
    gl,                     \* the OpenGL context: enable bits, stacks, frame
    pick_log,               \* pick_movement: its GL calls, each with the
                            \* context it leaves, after the context at entry
    pick_hit,               \* pick_movement: the movement drawn at (x, y), or None
    pixel,                  \* pick_movement: what glReadPixels returned
    pick_result,            \* pick_movement: the value returned
    cl_move, cl_color       \* movement_color: the argument, the value returned

locals == <<layer_idx, start, prev, vertex_list, normal_list, color_list,
            arrow_list, arrow_endpoints, layer_markers_list>>

tables == <<layer_stops, layer_heights, layer_marker_stops,
            movement_line_numbers>>

published == <<vertices, normals, colors, arrows, layer_markers, max_layers,
               arrows_enabled>>

build == <<pc, raised, model_data, given, callback, progress, locals, tables,
           selected_lines, at_entry, published>>

plans == <<view, movement_calls, highlight_calls, arrow_calls, marker_calls>>

frame == <<plans, gl>>

picking == <<pick_hit, pixel, pick_result, pick_log>>

classifier == <<cl_move, cl_color>>

vars == <<build, num_layers_to_draw, frame, picking, classifier>>

NoMovement == [v |-> <<0, 0, 0>>, flags |-> 0, delta_e |-> 0, line_no |-> 0]

NoView == [drawn |-> FALSE, elevation |-> 0, eye_height |-> 0,
           mode_ortho |-> FALSE, mode_2d |-> FALSE, offset_z |-> 0]

NoPixel == [kind |-> "unread", data |-> <<>>]

\* the context between two frames: display has switched lighting off (line
\* 309), no attribute set or model matrix is pushed, no view is begun and
\* the color buffer holds the scene
GlIdle ==
    [lighting |-> FALSE, blend |-> TRUE, dither |-> TRUE,
     attrib_stack |-> <<>>, matrix_depth |-> 0, view_begun |-> FALSE,
     buffer |-> "scene"]

\* the attributes of the model that load_data assigns and display reads
Attributes ==
    [pc |-> pc,
     vertices |-> vertices, normals |-> normals, colors |-> colors,
     layer_stops |-> layer_stops, layer_heights |-> layer_heights,
     layer_marker_stops |-> layer_marker_stops,
     movement_line_numbers |-> movement_line_numbers,
     selected_lines |-> selected_lines,
     max_layers |-> max_layers, num_layers_to_draw |-> num_layers_to_draw]

\* the attributes of a model no build has touched
NewAttributes ==
    [pc |-> "new",
     vertices |-> <<>>, normals |-> <<>>, colors |-> <<>>,
     layer_stops |-> <<>>, layer_heights |-> <<>>,
     layer_marker_stops |-> <<>>,
     movement_line_numbers |-> <<>>,
     selected_lines |-> {},
     max_layers |-> 0, num_layers_to_draw |-> 0]

\* pick_movement returning None
None == -1

\* an IndexError leaving a subscript
Raised == -2

InitBuild ==
    /\ pc = "new"
    /\ raised = "none"
    /\ model_data = <<>>
    /\ given = <<>>
    /\ callback = "none"
    /\ progress = <<>>
    /\ layer_idx = 0
    /\ start = NoMovement /\ prev = NoMovement
    /\ vertex_list = <<>> /\ normal_list = <<>> /\ color_list = <<>>
    /\ arrow_list = <<>> /\ arrow_endpoints = <<>> /\ layer_markers_list = <<>>
    /\ layer_stops = <<>> /\ layer_heights = <<>> /\ layer_marker_stops = <<>>
    /\ movement_line_numbers = <<>> /\ selected_lines = {}
    /\ at_entry = NewAttributes
    /\ vertices = <<>> /\ normals = <<>> /\ colors = <<>>
    /\ arrows = <<>> /\ layer_markers = <<>>
    /\ max_layers = 0 /\ num_layers_to_draw = 0 /\ arrows_enabled = FALSE

InitPlans ==
    /\ view = NoView
    /\ movement_calls = <<>> /\ highlight_calls = <<>>
    /\ arrow_calls = <<>> /\ marker_calls = <<>>

InitFrame == InitPlans /\ gl = GlIdle

InitPicking ==
    /\ pick_hit = None /\ pixel = NoPixel /\ pick_result = None
    /\ pick_log = <<>>

InitClassifier == cl_move = NoMovement /\ cl_color = "unset"

Init == InitBuild /\ InitFrame /\ InitPicking /\ InitClassifier

(***************************************************************************)
(* load_data.                                                              *)
(***************************************************************************)
\* callback_every = max(1, int(math.floor(num_layers / 100)))
callback_every(num_layers) == Max(1, num_layers \div 100)

\* lines 71-94: the tables are reset, then the first record of the first
\* layer is taken as the starting point and deleted from the caller's list.
\* load_data runs on a new model and on one an earlier call has left.
LoadBegin(data, cb) ==
    /\ pc # "loading"
    /\ at_entry' = Attributes
    /\ given' = data
    /\ callback' = cb
    /\ progress' = <<>>
    /\ vertex_list' = <<>> /\ normal_list' = <<>> /\ color_list' = <<>>
    /\ arrow_list' = <<>> /\ arrow_endpoints' = <<>>
    /\ layer_markers_list' = <<>>
    /\ layer_stops' = <<0>>
    /\ layer_heights' = <<>>
    /\ layer_marker_stops' = <<0>>
    /\ movement_line_numbers' = <<>>
    /\ selected_lines' = {}
    /\ layer_idx' = 0
    /\ IF Len(data) = 0 \/ Len(data[1]) = 0
       THEN \* model_data[0][0] raises IndexError
            /\ pc' = "failed"
            /\ raised' = "IndexError"
            /\ model_data' = data
            /\ start' = NoMovement /\ prev' = NoMovement
       ELSE /\ pc' = "loading"
            /\ raised' = "none"
            /\ start' = data[1][1] /\ prev' = data[1][1]
            /\ model_data' = [data EXCEPT ![1] = Tail(@)]
    /\ UNCHANGED <<published, num_layers_to_draw, frame, picking, classifier>>

\* lines 98-119: one movement of the inner loop, on the accumulators acc
MovementStep(acc, movement) ==
    LET cyl == generate_cylinder(acc.prev.v, movement.v, cylinder_sides)
        dir == Direction(acc.prev.v, movement.v)
        vertex_color == movement_color(movement)
    IN  [vertex_list |-> acc.vertex_list \o cyl.vertices,
         normal_list |-> acc.normal_list \o cyl.normals,
         arrow_list |->
             acc.arrow_list \o [k \in 1..Len(arrow) |-> <<arrow[k], dir>>],
         arrow_endpoints |-> Append(acc.arrow_endpoints, movement.v),
         movement_line_numbers |->
             Append(acc.movement_line_numbers, movement.line_no),
         color_list |->
             acc.color_list
                 \o [k \in 1..num_cylinder_vertices |-> vertex_color],
         prev |-> movement]

\* for movement in layer, from the k-th movement on
RECURSIVE LayerLoop(_, _, _)
LayerLoop(acc, layer, k) ==
    IF k > Len(layer) THEN acc
    ELSE LayerLoop(MovementStep(acc, layer[k]), layer, k + 1)

LayerMarkersExitAlways(data, idx) ==
    LET layer == data[idx + 1]
        entry ==
            IF idx > 0 /\ Len(data[idx]) > 0
            THEN [k \in 1..Len(layer_entry_marker) |->
                     <<"entry", layer_entry_marker[k],
                       data[idx][Len(data[idx])].v>>]
            ELSE IF idx = 0 /\ Len(layer) > 0
            THEN [k \in 1..Len(layer_entry_marker) |->
                     <<"entry", layer_entry_marker[k], layer[1].v>>]
            ELSE <<>>
        exit ==
            IF Len(layer) > 0
            THEN [k \in 1..Len(layer_exit_marker) |->
                     <<"exit", layer_exit_marker[k], layer[Len(layer)].v>>]
            ELSE <<>>
    IN  entry \o exit

\* lines 124-134: the markers layer idx adds
LayerMarkers(data, idx) ==
    LET layer == data[idx + 1]
        entry ==
            IF idx > 0 /\ Len(data[idx]) > 0
            THEN [k \in 1..Len(layer_entry_marker) |->
                     <<"entry", layer_entry_marker[k],
                       data[idx][Len(data[idx])].v>>]
            ELSE IF idx = 0 /\ Len(layer) > 0
            THEN [k \in 1..Len(layer_entry_marker) |->
                     <<"entry", layer_entry_marker[k], layer[1].v>>]
            ELSE <<>>
        exit ==
            IF Len(layer) > 1
            THEN [k \in 1..Len(layer_exit_marker) |->
                     <<"exit", layer_exit_marker[k], layer[Len(layer)].v>>]
            ELSE <<>>
    IN  entry \o exit

LayerStopColors(acc) == Len(acc.color_list)

\* line 121: the value appended to layer_stops after a layer
LayerStop(acc) == Len(acc.vertex_list)

\* lines 95-139: one iteration of the loop over the layers
LoadLayer ==
    /\ pc = "loading"
    /\ layer_idx < Len(model_data)
    /\ LET layer == model_data[layer_idx + 1]
       IN  IF Len(layer) = 0
           THEN \* first = layer[0] raises IndexError
                /\ pc' = "failed"
                /\ raised' = "IndexError"
                /\ UNCHANGED <<progress, locals, tables>>
           ELSE LET first == layer[1]
                    acc == LayerLoop(
                        [vertex_list |-> vertex_list,
                         normal_list |-> normal_list,
                         arrow_list |-> arrow_list,
                         arrow_endpoints |-> arrow_endpoints,
                         movement_line_numbers |-> movement_line_numbers,
                         color_list |-> color_list,
                         prev |-> prev], layer, 1)
                    markers ==
                        layer_markers_list \o LayerMarkers(model_data, layer_idx)
                IN  /\ vertex_list' = acc.vertex_list
                    /\ normal_list' = acc.normal_list
                    /\ color_list' = acc.color_list
                    /\ arrow_list' = acc.arrow_list
                    /\ arrow_endpoints' = acc.arrow_endpoints
                    /\ movement_line_numbers' = acc.movement_line_numbers
                    /\ prev' = acc.prev
                    /\ layer_stops' = Append(layer_stops, LayerStop(acc))
                    /\ layer_heights' = Append(layer_heights, first.v[3])
                    /\ layer_markers_list' = markers
                    /\ layer_marker_stops' =
                           Append(layer_marker_stops, Len(markers))
                    /\ IF /\ callback # "none"
                          /\ layer_idx % callback_every(Len(model_data)) = 0
                       THEN \* callback(layer_idx + 1, num_layers)
                            /\ progress' =
                                   Append(progress,
                                          <<layer_idx + 1, Len(model_data)>>)
                            /\ \E outcome \in Outcomes(callback) :
                                   IF outcome = "raises"
                                   THEN /\ pc' = "failed"
                                        /\ raised' = "CallbackError"
                                        /\ layer_idx' = layer_idx
                                   ELSE /\ layer_idx' = layer_idx + 1
                                        /\ UNCHANGED <<pc, raised>>
                       ELSE /\ layer_idx' = layer_idx + 1
                            /\ UNCHANGED <<pc, raised, progress>>
                    /\ UNCHANGED start
    /\ UNCHANGED <<model_data, given, callback, selected_lines, at_entry,
                   published, num_layers_to_draw, frame, picking, classifier>>

\* lines 141-158: the buffers are published
LoadFinish ==
    /\ pc = "loading"
    /\ layer_idx = Len(model_data)
    /\ vertices' = vertex_list
    /\ normals' = normal_list
    /\ colors' = color_list
    /\ arrows' =
           IF Len(arrow_endpoints) > 0
           THEN [k \in 1..Len(arrow_list) |->
                    <<arrow_list[k],
                      arrow_endpoints[((k - 1) \div Len(arrow)) + 1]>>]
           ELSE arrow_list
    /\ layer_markers' = layer_markers_list
    /\ max_layers' = Len(layer_stops) - 1
    /\ num_layers_to_draw' = Len(layer_stops) - 1
    /\ arrows_enabled' = TRUE
    /\ pc' = "ready"
    /\ UNCHANGED <<raised, model_data, given, callback, progress, locals,
                   tables, selected_lines, at_entry, frame, picking, classifier>>

(***************************************************************************)
(* The layer slider (src/tatlin/lib/ui/gcode.py): on_slider_moved hands    *)
(* the slider's value, in 1..max_layers, to the scene, which stores it in  *)
(* num_layers_to_draw, and invalidates the frame.                          *)
(***************************************************************************)
on_slider_moved(value) ==
    /\ pc = "ready"
    /\ value \in 1..max_layers
    /\ value # num_layers_to_draw
    /\ num_layers_to_draw' = value
    /\ view' = NoView
    /\ movement_calls' = <<>> /\ highlight_calls' = <<>>
    /\ arrow_calls' = <<>> /\ marker_calls' = <<>>
    /\ UNCHANGED <<build, gl, picking, classifier>>

set_selected_lines_resets(line_numbers) ==
    /\ selected_lines' =
           IF Len(line_numbers) # 0 THEN Range(line_numbers) ELSE {}
    /\ movement_line_numbers' = <<>>
    /\ UNCHANGED <<pc, raised, model_data, given, callback, progress, locals,
                   layer_stops, layer_heights, layer_marker_stops,
                   at_entry, published, num_layers_to_draw, frame,
                   picking, classifier>>

\* lines 419-426: set_selected_lines(line_numbers), line_numbers a list;
\* None and the empty list are both false and give the empty set
set_selected_lines(line_numbers) ==
    /\ selected_lines' =
           IF Len(line_numbers) # 0 THEN Range(line_numbers) ELSE {}
    /\ UNCHANGED <<pc, raised, model_data, given, callback, progress, locals,
                   tables, at_entry, published, num_layers_to_draw, frame,
                   picking, classifier>>

(***************************************************************************)
(* display. A glDrawArrays(GL_TRIANGLES, first, count) call is             *)
(* <<first, count>>; stops[i + 1] is Python's layer_stops[i].              *)
(***************************************************************************)
\* lines 352-354, 375-377: the call that draws layer stop_idx
LayerCall(stops, stop_idx) ==
    <<stops[stop_idx + 1], stops[stop_idx + 2] - stops[stop_idx + 1]>>

\* while stop_idx > limit: draw layer stop_idx; stop_idx -= 1
RECURSIVE ReverseCalls(_, _, _)
ReverseCalls(stops, stop_idx, limit) ==
    IF stop_idx > limit
    THEN <<LayerCall(stops, stop_idx)>> \o ReverseCalls(stops, stop_idx - 1, limit)
    ELSE <<>>

OrthoReverseSkipsBottom(stops, n) == ReverseCalls(stops, n - 1, 0)

\* lines 350-355: stop_idx from num_layers_to_draw - 1 while stop_idx >= 0
OrthoReverse(stops, n) == ReverseCalls(stops, n - 1, -1)

\* for idx in range(len(layer_heights) - 1, -1, -1), from idx on
RECURSIVE ScanDown(_, _, _)
ScanDown(heights, height, idx) ==
    IF idx < 0 THEN 0
    ELSE IF heights[idx + 1] < height THEN idx
    ELSE ScanDown(heights, height, idx - 1)

RECURSIVE ScanDownLe(_, _, _)
ScanDownLe(heights, height, idx) ==
    IF idx < 0 THEN 0
    ELSE IF heights[idx + 1] <= height THEN idx
    ELSE ScanDownLe(heights, height, idx - 1)

layer_up_to_height_le(heights, height) ==
    ScanDownLe(heights, height, Len(heights) - 1)

layer_up_to_height(heights, height) ==
    ScanDown(heights, height, Len(heights) - 1)

\* the 3d projection mode with a reverse loop `while stop_idx >=
\* reverse_threshold_layer`
PerspectiveCallsOverlap(stops, heights, n, eye_height, offset_z) ==
    LET reverse_threshold_layer ==
            layer_up_to_height(heights, eye_height - offset_z)
        normal_layers_to_draw == Min(n, reverse_threshold_layer + 1)
    IN  (IF reverse_threshold_layer >= 0
         THEN << <<0, stops[normal_layers_to_draw + 1] - 0>> >>
         ELSE <<>>)
        \o (IF reverse_threshold_layer + 1 < n
            THEN ReverseCalls(stops, n - 1, reverse_threshold_layer - 1)
            ELSE <<>>)

\* lines 357-378: the 3d projection mode
PerspectiveCalls(stops, heights, n, eye_height, offset_z) ==
    LET reverse_threshold_layer ==
            layer_up_to_height(heights, eye_height - offset_z)
        normal_layers_to_draw == Min(n, reverse_threshold_layer + 1)
    IN  (IF reverse_threshold_layer >= 0
         THEN << <<0, stops[normal_layers_to_draw + 1] - 0>> >>
         ELSE <<>>)
        \o (IF reverse_threshold_layer + 1 < n
            THEN ReverseCalls(stops, n - 1, reverse_threshold_layer)
            ELSE <<>>)

display_movements_above_strict(v, stops, heights, n) ==
    IF v.mode_2d
    THEN <<LayerCall(stops, n - 1)>>
    ELSE IF v.mode_ortho
    THEN IF v.elevation > 0
         THEN << <<0, stops[n + 1] - 0>> >>
         ELSE OrthoReverse(stops, n)
    ELSE PerspectiveCalls(stops, heights, n, v.eye_height, v.offset_z)

display_movements_2d_cumulative(v, stops, heights, n) ==
    IF v.mode_2d
    THEN << <<0, stops[n + 1] - 0>> >>
    ELSE IF v.mode_ortho
    THEN IF v.elevation >= 0
         THEN << <<0, stops[n + 1] - 0>> >>
         ELSE OrthoReverse(stops, n)
    ELSE PerspectiveCalls(stops, heights, n, v.eye_height, v.offset_z)

\* lines 335-378
display_movements(v, stops, heights, n) ==
    IF v.mode_2d
    THEN <<LayerCall(stops, n - 1)>>
    ELSE IF v.mode_ortho
    THEN IF v.elevation >= 0
         THEN << <<0, stops[n + 1] - 0>> >>
         ELSE OrthoReverse(stops, n)
    ELSE PerspectiveCalls(stops, heights, n, v.eye_height, v.offset_z)

\* lines 456-464: one call per movement whose line is selected
RECURSIVE HighlightCalls(_, _, _)
HighlightCalls(lines, selected, movement_idx) ==
    IF movement_idx >= Len(lines) THEN <<>>
    ELSE (IF lines[movement_idx + 1] \in selected
          THEN << <<movement_idx * (cylinder_sides * 6), cylinder_sides * 6>> >>
          ELSE <<>>)
         \o HighlightCalls(lines, selected, movement_idx + 1)

\* lines 434-435
display_selection_highlight(lines, selected) ==
    IF selected = {} THEN <<>> ELSE HighlightCalls(lines, selected, 0)

\* lines 399-402
display_arrows(stops, n) ==
    LET first == (stops[n] \div 2) * 3
        end == (stops[n + 1] \div 2) * 3
    IN  << <<first, end - first>> >>

\* lines 411-415
display_layer_markers(marker_stops, n) ==
    << <<marker_stops[n], marker_stops[n + 1] - marker_stops[n]>> >>

\* lines 281-321: display(elevation, eye_height, mode_ortho, mode_2d) with
\* the model's offset_z
Display(v) ==
    /\ pc = "ready"
    /\ view' = v
    /\ movement_calls' =
           display_movements(v, layer_stops, layer_heights, num_layers_to_draw)
    /\ highlight_calls' =
           IF Cardinality(selected_lines) > 0
           THEN display_selection_highlight(movement_line_numbers,
                                            selected_lines)
           ELSE <<>>
    /\ arrow_calls' =
           IF arrows_enabled
           THEN display_arrows(layer_stops, num_layers_to_draw) ELSE <<>>
    /\ marker_calls' =
           IF arrows_enabled
           THEN display_layer_markers(layer_marker_stops, num_layers_to_draw)
           ELSE <<>>
    \* glEnable(GL_LIGHTING) at line 292, glDisable(GL_LIGHTING) at line 309;
    \* glPushMatrix and glPopMatrix at lines 282 and 321
    /\ gl' = [gl EXCEPT !.lighting = FALSE, !.buffer = "scene"]
    /\ UNCHANGED <<build, num_layers_to_draw, picking, classifier>>

(***************************************************************************)
(* Picking. A colour component given to glColor3f is the fraction          *)
(* <<numerator, denominator>>; glReadPixels with GL_UNSIGNED_BYTE returns  *)
(* round(component * 255).                                                 *)
(***************************************************************************)
\* Python's a | b on non-negative integers
RECURSIVE BitOr(_, _)
BitOr(a, b) ==
    IF a = 0 THEN b
    ELSE IF b = 0 THEN a
    ELSE Max(a % 2, b % 2) + 2 * BitOr(a \div 2, b \div 2)

\* x >> n and x << n
ShiftRight(x, n) == x \div (2 ^ n)

ShiftLeft(x, n) == x * (2 ^ n)

PickColorZeroBased(movement_idx) ==
    LET color_id == movement_idx
    IN  << <<BitAnd(ShiftRight(color_id, 16), 255), 255>>,
           <<BitAnd(ShiftRight(color_id, 8), 255), 255>>,
           <<BitAnd(color_id, 255), 255>> >>

\* lines 570-575: the colour _render_for_picking draws movement_idx in
PickColor(movement_idx) ==
    LET color_id == movement_idx + 1
    IN  << <<BitAnd(ShiftRight(color_id, 16), 255), 255>>,
           <<BitAnd(ShiftRight(color_id, 8), 255), 255>>,
           <<BitAnd(color_id, 255), 255>> >>

\* the unsigned byte the frame buffer returns for a component
ToUByte(c) == (2 * c[1] * 255 + c[2]) \div (2 * c[2])

\* line 517: the pixel read where movement_idx was drawn
ReadPixels(movement_idx) ==
    [k \in 1..3 |-> ToUByte(PickColor(movement_idx)[k])]

\* Python's list[i]
ListGet(list, i) ==
    IF 0 <= i /\ i < Len(list) THEN list[i + 1]
    ELSE IF -Len(list) <= i /\ i < 0 THEN list[Len(list) + i + 1]
    ELSE Raised

DecodeOffByOne(pix, lines) ==
    IF pix.kind # "array" THEN None
    ELSE IF Len(pix.data) < 3 THEN None
    ELSE LET r == pix.data[1]
             g == pix.data[2]
             b == pix.data[3]
             movement_idx == BitOr(BitOr(ShiftLeft(r, 16), ShiftLeft(g, 8)), b) - 1
         IN  IF r = 0 /\ g = 0 /\ b = 0 THEN None
             ELSE IF 0 <= movement_idx /\ movement_idx <= Len(lines)
             THEN ListGet(lines, movement_idx)
             ELSE None

\* lines 525-553: pix.kind is "none" for a pixel that is None, "garbage" for
\* data numpy.array or int refuse (IndexError, TypeError, ValueError) and
\* "array" for data that flattens to the numbers pix.data
Decode(pix, lines) ==
    IF pix.kind # "array" THEN None
    ELSE IF Len(pix.data) < 3 THEN None
    ELSE LET r == pix.data[1]
             g == pix.data[2]
             b == pix.data[3]
             movement_idx == BitOr(BitOr(ShiftLeft(r, 16), ShiftLeft(g, 8)), b) - 1
         IN  IF r = 0 /\ g = 0 /\ b = 0 THEN None
             ELSE IF 0 <= movement_idx /\ movement_idx < Len(lines)
             THEN ListGet(lines, movement_idx)
             ELSE None

\* line 568: the movements _render_for_picking draws, each in its colour:
\* range(len(self.movement_line_numbers))
RenderedMovements == 0..(Len(movement_line_numbers) - 1)

PickCallsSampleLate ==
    <<"glPushAttrib", "glDisable(GL_LIGHTING)", "glDisable(GL_BLEND)",
      "glDisable(GL_DITHER)", "glClearColor", "glClear",
      "current_view.begin", "current_view.display_transform",
      "glPushMatrix", "glTranslate", "_render_for_picking", "glPopMatrix",
      "current_view.end", "glPopAttrib", "glReadPixels">>

\* lines 488-523: the calls pick_movement makes before it decodes the pixel
PickCalls ==
    <<"glPushAttrib", "glDisable(GL_LIGHTING)", "glDisable(GL_BLEND)",
      "glDisable(GL_DITHER)", "glClearColor", "glClear",
      "current_view.begin", "current_view.display_transform",
      "glPushMatrix", "glTranslate", "_render_for_picking", "glPopMatrix",
      "glReadPixels", "current_view.end", "glPopAttrib">>

\* what a call does to the context g. glPushAttrib(GL_COLOR_BUFFER_BIT |
\* GL_ENABLE_BIT | GL_LIGHTING_BIT) saves the enable bits, glPopAttrib
\* restores the set saved last; _render_for_picking draws into the color
\* buffer with the enable bits as they are.
GlApply(g, call) ==
    CASE call = "glPushAttrib" ->
             [g EXCEPT !.attrib_stack =
                  Append(@, [lighting |-> g.lighting, blend |-> g.blend,
                             dither |-> g.dither])]
      [] call = "glPopAttrib" ->
             IF g.attrib_stack = <<>> THEN g
             ELSE LET saved == g.attrib_stack[Len(g.attrib_stack)]
                  IN  [g EXCEPT !.lighting = saved.lighting,
                                !.blend = saved.blend,
                                !.dither = saved.dither,
                                !.attrib_stack =
                                    SubSeq(@, 1, Len(g.attrib_stack) - 1)]
      [] call = "glDisable(GL_LIGHTING)" -> [g EXCEPT !.lighting = FALSE]
      [] call = "glDisable(GL_BLEND)" -> [g EXCEPT !.blend = FALSE]
      [] call = "glDisable(GL_DITHER)" -> [g EXCEPT !.dither = FALSE]
      [] call = "glClear" -> [g EXCEPT !.buffer = "cleared"]
      [] call = "current_view.begin" -> [g EXCEPT !.view_begun = TRUE]
      [] call = "current_view.end" -> [g EXCEPT !.view_begun = FALSE]
      [] call = "glPushMatrix" -> [g EXCEPT !.matrix_depth = @ + 1]
      [] call = "glPopMatrix" -> [g EXCEPT !.matrix_depth = @ - 1]
      [] call = "_render_for_picking" ->
             [g EXCEPT !.buffer =
                  IF g.buffer = "cleared" /\ ~g.lighting /\ ~g.blend
                         /\ ~g.dither
                  THEN "picking" ELSE "blended"]
      [] OTHER -> g

\* the calls from the k-th on, each with the context it leaves
RECURSIVE GlLog(_, _, _)
GlLog(g, calls, k) ==
    IF k > Len(calls) THEN <<>>
    ELSE LET after == GlApply(g, calls[k])
         IN  <<[call |-> calls[k], gl |-> after]>> \o GlLog(after, calls, k + 1)

\* lines 488-523 run from the context g
PickLog(g) == <<[call |-> "pick_movement", gl |-> g]>> \o GlLog(g, PickCalls, 1)

\* lines 473-553: pick_movement, where the frame shows movement hit at
\* (x, y), or the cleared background when hit is None
PickMovement(hit) ==
    /\ pc = "ready"
    /\ hit = None \/ hit \in RenderedMovements
    /\ pick_log' = PickLog(gl)
    /\ gl' = pick_log'[Len(pick_log')].gl
    /\ pick_hit' = hit
    /\ pixel' = [kind |-> "array",
                 data |-> IF hit = None THEN <<0, 0, 0>> ELSE ReadPixels(hit)]
    /\ pick_result' = Decode(pixel', movement_line_numbers)
    /\ UNCHANGED <<build, num_layers_to_draw, plans, classifier>>

\* lines 525-553 on a pixel that is not of the picking frame
PickForeign(pix) ==
    /\ pc = "ready"
    /\ pick_log' = PickLog(gl)
    /\ gl' = pick_log'[Len(pick_log')].gl
    /\ pick_hit' = None
    /\ pixel' = pix
    /\ pick_result' = Decode(pix, movement_line_numbers)
    /\ UNCHANGED <<build, num_layers_to_draw, plans, classifier>>

\* pick_movement returns: its locals are gone
PickReturn ==
    /\ pixel.kind # "unread"
    /\ pick_hit' = None /\ pixel' = NoPixel /\ pick_result' = None
    /\ pick_log' = <<>>
    /\ UNCHANGED <<build, num_layers_to_draw, frame, classifier>>

(***************************************************************************)
(* movement_color, applied.                                                *)
(***************************************************************************)
Classify ==
    /\ cl_color = "unset"
    /\ cl_color' = movement_color(cl_move)
    /\ UNCHANGED <<build, num_layers_to_draw, frame, picking, cl_move>>

\* load_data is called on a new model with a stream and a callback
Load ==
    /\ pc = "new"
    /\ \E data \in Streams, cb \in Callbacks : LoadBegin(data, cb)

Next ==
    \/ Load
    \/ LoadLayer
    \/ LoadFinish

Spec == Init /\ [][Next]_vars

(***************************************************************************)
(* The draw planner on finished builds: streams over two heights, the      *)
(* slider and display.                                                     *)
(***************************************************************************)
DrawPoints == {<<0, 0, 0>>, <<0, 0, 3>>}

Elevations == {-1, 0}

EyeHeights == {0, 3, 4}

Offsets == {0, 1}

Views ==
    [drawn : {TRUE}, elevation : Elevations, eye_height : EyeHeights,
     mode_ortho : BOOLEAN, mode_2d : BOOLEAN, offset_z : Offsets]

LoadForDraw ==
    /\ pc = "new"
    /\ \E data \in StreamsOver(DrawPoints) : LoadBegin(data, "none")

MoveSlider ==
    /\ pc = "ready"
    /\ \E value \in 1..MaxLayers : on_slider_moved(value)

\* on_set_mode, on_set_ortho and the scene's view changes invalidate the frame
Invalidate ==
    /\ pc = "ready"
    /\ view.drawn
    /\ view' = NoView
    /\ movement_calls' = <<>> /\ highlight_calls' = <<>>
    /\ arrow_calls' = <<>> /\ marker_calls' = <<>>
    /\ UNCHANGED <<build, num_layers_to_draw, gl, picking, classifier>>

\* the scene paints an invalidated frame
Draw ==
    /\ pc = "ready"
    /\ ~view.drawn
    /\ \E v \in Views : Display(v)

NextDraw ==
    \/ LoadForDraw
    \/ LoadLayer
    \/ LoadFinish
    \/ MoveSlider
    \/ Invalidate
    \/ Draw

SpecDraw == Init /\ [][NextDraw]_vars

(***************************************************************************)
(* load_data called a second time, on a model that a first call has built: *)
(* the second call may be given a callback that raises.                    *)
(***************************************************************************)
Reload ==
    /\ pc = "ready"
    /\ at_entry.pc = "new"
    /\ \E data \in StreamsOver(DrawPoints), cb \in Callbacks :
           LoadBegin(data, cb)

NextReload ==
    \/ LoadForDraw
    \/ LoadLayer
    \/ LoadFinish
    \/ Reload

SpecReload == Init /\ [][NextReload]_vars

(***************************************************************************)
(* load_data on long streams, with a callback: LayerCounts layers of one   *)
(* movement each, all at the origin.                                       *)
(***************************************************************************)
LayerCounts == {1, 2, 99, 100, 101, 150, 199, 200, 399}

\* the record of line k
LongRecord(k) ==
    [v |-> <<0, 0, 0>>, flags |-> FLAG_EXTRUDER_ON, delta_e |-> 1,
     line_no |-> k]

\* n layers: the origin and a movement in the first, a movement in the others
LongStream(n) ==
    [l \in 1..n |->
        IF l = 1 THEN <<LongRecord(1), LongRecord(2)>>
        ELSE <<LongRecord(l + 1)>>]

LoadLong ==
    /\ pc = "new"
    /\ \E n \in LayerCounts : LoadBegin(LongStream(n), "returns")

NextProgress ==
    \/ LoadLong
    \/ LoadLayer
    \/ LoadFinish

SpecProgress == Init /\ [][NextProgress]_vars

(***************************************************************************)
(* Selection: finished builds whose movements may share source lines, a    *)
(* selection set between two frames, and display.                          *)
(***************************************************************************)
\* the stream with the records of lines 2k - 1 and 2k both put on line k
PairedLines(data) ==
    [l \in 1..Len(data) |->
        [k \in 1..Len(data[l]) |->
            [data[l][k] EXCEPT !.line_no = (@ + 1) \div 2]]]

SelectStreams ==
    StreamsOver(DrawPoints)
        \cup {PairedLines(data) : data \in StreamsOver(DrawPoints)}

\* the arguments of set_selected_lines: lists of up to MaxSelected lines,
\* a line twice included
MaxSelected == 2

LineLists == UNION {[1..n -> 1..MaxMovements] : n \in 0..MaxSelected}

\* one view per mode
SelectViews ==
    {v \in Views : v.elevation = 0 /\ v.eye_height = 0 /\ v.offset_z = 0}

LoadForSelect ==
    /\ pc = "new"
    /\ \E data \in SelectStreams : LoadBegin(data, "none")

SetSelected ==
    /\ pc = "ready"
    /\ ~view.drawn
    /\ \E line_numbers \in LineLists :
           /\ Range(line_numbers) # selected_lines
           /\ set_selected_lines(line_numbers)

DrawSelected ==
    /\ pc = "ready"
    /\ ~view.drawn
    /\ \E v \in SelectViews : Display(v)

NextSelect ==
    \/ LoadForSelect
    \/ LoadLayer
    \/ LoadFinish
    \/ SetSelected
    \/ DrawSelected
    \/ Invalidate

SpecSelect == Init /\ [][NextSelect]_vars

(***************************************************************************)
(* A finished build in use: the selection, the slider, display in every    *)
(* mode and pick_movement, in any order.                                   *)
(***************************************************************************)
\* n records in source order along the Z axis, at 0, 1.5e-6, 0, 0, ...:
\* the third movement is degenerate
UseRecords(n) ==
    [k \in 1..n |->
        [v |-> <<0, 0, IF k % 4 = 2 THEN 3 ELSE 0>>,
         flags |-> FLAG_EXTRUDER_ON + FLAG_PERIMETER, delta_e |-> 1,
         line_no |-> k]]

\* those records cut into layers in every way
UseStreams == {Split(UseRecords(SumTo(sh, Len(sh))), sh) : sh \in Shapes}

LoadForUse ==
    /\ pc = "new"
    /\ \E data \in UseStreams : LoadBegin(data, "none")

\* the lines selected: those of the first two movements
UseLines == {2, 3}

UseLineLists == UNION {[1..n -> UseLines] : n \in 0..MaxSelected}

SelectForUse ==
    /\ pc = "ready"
    /\ ~view.drawn
    /\ \E line_numbers \in UseLineLists :
           /\ Range(line_numbers) # selected_lines
           /\ set_selected_lines(line_numbers)

\* a click on the drawn scene: pick_movement on the movements drawn in the
\* picking frame
PickAny ==
    /\ pc = "ready"
    /\ view.drawn
    /\ pixel.kind = "unread"
    /\ \E hit \in {None} \cup RenderedMovements : PickMovement(hit)

NextUse ==
    \/ LoadForUse
    \/ LoadLayer
    \/ LoadFinish
    \/ SelectForUse
    \/ MoveSlider
    \/ DrawSelected
    \/ Invalidate
    \/ PickAny
    \/ PickReturn

SpecUse == Init /\ [][NextUse]_vars

(***************************************************************************)
(* movement_color on every flag word up to MaxFlags and every sign of      *)
(* delta_e.                                                                *)
(***************************************************************************)
MaxFlags == 63

ColorMoves ==
    [v : {<<0, 0, 0>>}, flags : 0..MaxFlags, delta_e : {-1, 0, 1},
     line_no : {1}]

InitColor ==
    /\ InitBuild /\ InitFrame /\ InitPicking
    /\ cl_move \in ColorMoves
    /\ cl_color = "unset"

NextColor == Classify

SpecColor == InitColor /\ [][NextColor]_vars

(***************************************************************************)
(* The picking codec on line tables of PickCounts movements, the k-th      *)
(* movement coming from line k + 1. Decoding reads movement_line_numbers   *)
(* only; the buffers are left empty.                                       *)
(***************************************************************************)
MaxPickScan == 20

PickCounts == {1, 3, 255, 65538}

\* the movements sampled: the first ones, and those around the byte borders
HitSamples ==
    0..MaxPickScan \cup {b + d : b \in {256, 65536}, d \in -2..2}

RawBytes == {0, 1, 255}

ForeignPixels ==
    {[kind |-> "none", data |-> <<>>], [kind |-> "garbage", data |-> <<>>]}
    \cup {[kind |-> "array", data |-> d] :
             d \in UNION {[1..n -> RawBytes] : n \in 0..4}}

\* a finished build, as far as pick_movement reads it, of a number of
\* movements out of counts
BuiltForPick(counts) ==
    /\ pc = "ready"
    /\ raised = "none"
    /\ model_data = <<>>
    /\ given = <<>>
    /\ callback = "none"
    /\ progress = <<>>
    /\ layer_idx = 0
    /\ start = NoMovement /\ prev = NoMovement
    /\ vertex_list = <<>> /\ normal_list = <<>> /\ color_list = <<>>
    /\ arrow_list = <<>> /\ arrow_endpoints = <<>> /\ layer_markers_list = <<>>
    /\ layer_stops = <<0, 0>> /\ layer_heights = <<0>>
    /\ layer_marker_stops = <<0, 0>>
    /\ \E n \in counts : movement_line_numbers = [k \in 1..n |-> k + 1]
    /\ selected_lines = {}
    /\ at_entry = NewAttributes
    /\ vertices = <<>> /\ normals = <<>> /\ colors = <<>>
    /\ arrows = <<>> /\ layer_markers = <<>>
    /\ max_layers = 1 /\ num_layers_to_draw = 1 /\ arrows_enabled = TRUE

InitPick ==
    /\ BuiltForPick(PickCounts)
    /\ InitFrame /\ InitPicking /\ InitClassifier

\* pick_movement is called while no call of it is running
PickHit ==
    /\ pc = "ready"
    /\ pixel.kind = "unread"
    /\ \E hit \in {None} \cup HitSamples : PickMovement(hit)

PickOther ==
    /\ pc = "ready"
    /\ pixel.kind = "unread"
    /\ \E pix \in ForeignPixels : PickForeign(pix)

NextPick ==
    \/ PickHit
    \/ PickOther
    \/ PickReturn

SpecPick == InitPick /\ [][NextPick]_vars

(***************************************************************************)
(* pick_movement entered with any setting of the enable bits it disables,  *)
(* on small line tables.                                                   *)
(***************************************************************************)
GlPickCounts == {1, 3}

GlContexts ==
    {[GlIdle EXCEPT !.lighting = l, !.blend = b, !.dither = d] :
        l \in BOOLEAN, b \in BOOLEAN, d \in BOOLEAN}

InitPickGl ==
    /\ BuiltForPick(GlPickCounts)
    /\ InitPlans /\ gl \in GlContexts
    /\ InitPicking /\ InitClassifier

SpecPickGl == InitPickGl /\ [][NextPick]_vars

(***************************************************************************)
(* The mesh tables after a build.                                          *)
(***************************************************************************)
\* the records of the stream in order, the starting point first
AllMoves == <<start>> \o Flatten(model_data)

\* the records before layer l (1-based) of model_data, the starting point
\* not counted
Before(l) == Len(Flatten(SubSeq(model_data, 1, l - 1)))

\* the movements of layer l whose distance from the previous endpoint is
\* at least 1e-6
LongMoves(l) ==
    {k \in 1..Len(model_data[l]) :
        DistSq(AllMoves[Before(l) + k].v, AllMoves[Before(l) + k + 1].v)
            >= Eps * Eps}

\* C1: after load_data has completed on L layers, layer_stops has L + 1
\* entries, starts at 0, never decreases, and ends at the number of vertices
\* of the vertex buffer.
C1_LayerStopsCumulative ==
    pc = "ready" =>
        /\ Len(layer_stops) = Len(model_data) + 1
        /\ layer_stops[1] = 0
        /\ \A i \in 1..(Len(layer_stops) - 1) : layer_stops[i] <= layer_stops[i + 1]
        /\ layer_stops[Len(layer_stops)] = Len(vertices)

\* a finished build of three layers, the middle one adding no vertex (its
\* movements are degenerate), the others adding some
C1_Witness ==
    /\ pc = "ready"
    /\ Len(model_data) = 3
    /\ layer_stops[1] < layer_stops[2]
    /\ layer_stops[2] = layer_stops[3]
    /\ layer_stops[3] < layer_stops[4]

\* C2: after load_data has completed, the vertex, normal and color buffers
\* have the same number of entries, degenerate movements included.
C2_BuffersSameLength ==
    pc = "ready" =>
        Len(vertices) = Len(normals) /\ Len(normals) = Len(colors)

\* C3: after load_data has completed, movement_line_numbers has one entry
\* per run of sides * 6 vertices of the vertex buffer.
C3_OneLinePerRun ==
    pc = "ready" =>
        Len(movement_line_numbers) * cylinder_sides * 6 = Len(vertices)

\* C4: a movement adds no vertex when it is closer than 1e-6 to the previous
\* endpoint and sides * 6 = 48 vertices and as many normals otherwise; so
\* every layer adds 48 vertices per movement that is not degenerate, a
\* multiple of 48, and none when all its movements are degenerate.
C4_RunPerMovement ==
    pc \in {"loading", "ready"} =>
        /\ cylinder_sides * 6 = 48
        /\ Len(vertex_list) = Len(normal_list)
        /\ \A k \in 1..(Len(AllMoves) - 1) :
              LET cyl == generate_cylinder(AllMoves[k].v, AllMoves[k + 1].v,
                                           cylinder_sides)
                  n == IF DistSq(AllMoves[k].v, AllMoves[k + 1].v) < Eps * Eps
                       THEN 0 ELSE 48
              IN  Len(cyl.vertices) = n /\ Len(cyl.normals) = n
        /\ \A l \in 1..(Len(layer_stops) - 1) :
              /\ layer_stops[l + 1] - layer_stops[l]
                     = 48 * Cardinality(LongMoves(l))
              /\ (layer_stops[l + 1] - layer_stops[l]) % 48 = 0
              /\ LongMoves(l) = {} => layer_stops[l + 1] = layer_stops[l]

\* a finished build with a layer of degenerate movements only, one of them
\* at a distance above zero, and a movement at a distance of exactly 1e-6
C4_Witness ==
    /\ pc = "ready"
    /\ \E l \in 1..Len(model_data) :
          /\ LongMoves(l) = {}
          /\ \E k \in 1..Len(model_data[l]) :
                DistSq(AllMoves[Before(l) + k].v,
                       AllMoves[Before(l) + k + 1].v) > 0
    /\ \E k \in 1..(Len(AllMoves) - 1) :
          DistSq(AllMoves[k].v, AllMoves[k + 1].v) = Eps * Eps
    /\ Len(vertices) > 0

(***************************************************************************)
(* The classifier.                                                         *)
(***************************************************************************)
\* whether the bit is set in the flag word
HasBit(flags, bit) == (flags \div bit) % 2 = 1

\* C5: movement_color returns exactly one color, by first match: gray when
\* the movement is not extruding (EXTRUDER_ON unset and delta_e <= 0),
\* otherwise cyan with PERIMETER and PERIMETER_OUTER, otherwise green with
\* PERIMETER, otherwise yellow with LOOP, otherwise red.
C5_ColorByPriority ==
    cl_color # "unset" =>
        LET f == cl_move.flags
            extruding == HasBit(f, FLAG_EXTRUDER_ON) \/ cl_move.delta_e > 0
        IN  /\ cl_color \in Colors
            /\ cl_color =
                   IF ~extruding THEN gray
                   ELSE IF HasBit(f, FLAG_PERIMETER)
                           /\ HasBit(f, FLAG_PERIMETER_OUTER) THEN cyan
                   ELSE IF HasBit(f, FLAG_PERIMETER) THEN green
                   ELSE IF HasBit(f, FLAG_LOOP) THEN yellow
                   ELSE red
            /\ f = FLAG_EXTRUDER_ON + FLAG_PERIMETER + FLAG_LOOP
                   => cl_color = green
            /\ f = FLAG_PERIMETER + FLAG_PERIMETER_OUTER /\ cl_move.delta_e = 0
                   => cl_color = gray

\* {EXTRUDER_ON, PERIMETER, LOOP} has been classified, as green
C5_Witness ==
    /\ cl_color = green
    /\ cl_move.flags = FLAG_EXTRUDER_ON + FLAG_PERIMETER + FLAG_LOOP
    /\ cl_move.delta_e = 0

\* C6: a movement with EXTRUDER_ON unset and delta_e > 0 gets the color of
\* the movement with the same flags plus EXTRUDER_ON and delta_e = 0; with
\* EXTRUDER_ON unset and delta_e <= 0 it is gray whatever the other flags.
C6_DeltaCountsAsExtruding ==
    (cl_color # "unset" /\ ~HasBit(cl_move.flags, FLAG_EXTRUDER_ON)) =>
        IF cl_move.delta_e > 0
        THEN cl_color =
                 movement_color([cl_move EXCEPT
                                    !.flags = @ + FLAG_EXTRUDER_ON,
                                    !.delta_e = 0])
        ELSE cl_color = gray

\* an outer perimeter with EXTRUDER_ON unset and delta_e > 0 has been
\* classified, as cyan
C6_Witness ==
    /\ cl_color = cyan
    /\ ~HasBit(cl_move.flags, FLAG_EXTRUDER_ON)
    /\ cl_move.delta_e > 0

(***************************************************************************)
(* Picking.                                                                *)
(***************************************************************************)
\* the index a pixel of three numbers stands for
PixelIndex(data) == data[1] * 65536 + data[2] * 256 + data[3] - 1

\* C7: the pixel read where movement i is drawn is the 24-bit value i + 1
\* split into R, G and B bytes, so never black and different for different
\* i, and decoding it returns movement_line_numbers[i].
C7_PickRoundTrip ==
    (pixel.kind = "array" /\ pick_hit # None) =>
        /\ Len(pixel.data) = 3
        /\ \A k \in 1..3 : pixel.data[k] \in 0..255
        /\ pixel.data[1] * 65536 + pixel.data[2] * 256 + pixel.data[3]
               = pick_hit + 1
        /\ pixel.data # <<0, 0, 0>>
        /\ PixelIndex(pixel.data) = pick_hit
        /\ pick_result = movement_line_numbers[pick_hit + 1]

\* a movement whose picking colour has a red byte has been picked
C7_Witness ==
    /\ pixel.kind = "array"
    /\ pick_hit = 65536 + 1
    /\ pixel.data = <<1, 0, 2>>
    /\ pick_result = 65536 + 3

\* C8: decoding never raises; it returns None for a black pixel, for a
\* pixel whose index is not in [0, len(movement_line_numbers)), and for a
\* pixel of fewer than 3 components.
C8_PickFailsClosed ==
    pixel.kind # "unread" =>
        /\ pick_result # Raised
        /\ pixel.kind # "array" => pick_result = None
        /\ (pixel.kind = "array" /\ Len(pixel.data) < 3) => pick_result = None
        /\ (pixel.kind = "array" /\ Len(pixel.data) >= 3) =>
              /\ (pixel.data[1] = 0 /\ pixel.data[2] = 0 /\ pixel.data[3] = 0)
                     => pick_result = None
              /\ ~(0 <= PixelIndex(pixel.data)
                   /\ PixelIndex(pixel.data) < Len(movement_line_numbers))
                     => pick_result = None

\* a pixel whose index is the first one past the table has been decoded
C8_Witness ==
    /\ pixel.kind = "array"
    /\ Len(pixel.data) >= 3
    /\ PixelIndex(pixel.data) = Len(movement_line_numbers)
    /\ pick_result = None

(***************************************************************************)
(* The draw planner.                                                       *)
(***************************************************************************)
\* the layers (0-based) whose height is strictly below h
LayersBelow(h) == {i \in 0..(Len(layer_heights) - 1) : layer_heights[i + 1] < h}

\* the greatest layer strictly below h, 0 when there is none
Threshold(h) ==
    IF LayersBelow(h) = {} THEN 0
    ELSE CHOOSE i \in LayersBelow(h) : \A j \in LayersBelow(h) : j <= i

\* the range of layer i (0-based) alone
LayerRange(i) == <<layer_stops[i + 1], layer_stops[i + 2] - layer_stops[i + 1]>>

Perspective3D == view.drawn /\ ~view.mode_2d /\ ~view.mode_ortho

OrthoFromBelow ==
    view.drawn /\ ~view.mode_2d /\ view.mode_ortho /\ view.elevation < 0

\* C9: in perspective mode with 1 <= n <= max_layers and t the greatest
\* layer strictly below eye_height - offset_z (0 if none), the calls are the
\* range [0, layer_stops[min(n, t + 1)]) followed by one range per layer from
\* n - 1 down to t + 1, and nothing else.
C9_PerspectivePlan ==
    (Perspective3D /\ 1 <= num_layers_to_draw
         /\ num_layers_to_draw <= max_layers) =>
        LET n == num_layers_to_draw
            t == Threshold(view.eye_height - view.offset_z)
        IN  movement_calls =
                << <<0, layer_stops[Min(n, t + 1) + 1]>> >>
                \o [k \in 1..(n - 1 - t) |-> LayerRange(n - k)]

\* three layers drawn in perspective: layers 0 and 1 in one range, layer 2
\* on its own after it
C9_Witness ==
    /\ Perspective3D
    /\ num_layers_to_draw = 3
    /\ Threshold(view.eye_height - view.offset_z) = 1
    /\ Len(movement_calls) = 2
    /\ view.offset_z > 0

\* C10: in orthographic mode with elevation < 0 and 1 <= n <= max_layers
\* there are exactly n calls, the k-th (from 0) being the range of layer
\* n - 1 - k, an empty layer included.
C10_OrthoBelowPlan ==
    (OrthoFromBelow /\ 1 <= num_layers_to_draw
         /\ num_layers_to_draw <= max_layers) =>
        LET n == num_layers_to_draw
        IN  /\ Len(movement_calls) = n
            /\ \A k \in 0..(n - 1) :
                  movement_calls[k + 1] =
                      <<layer_stops[n - 1 - k + 1],
                        layer_stops[n - k + 1] - layer_stops[n - 1 - k + 1]>>

\* two of three layers drawn from below, one of the two without vertices
C10_Witness ==
    /\ OrthoFromBelow
    /\ num_layers_to_draw = 2
    /\ max_layers = 3
    /\ \E k \in 1..2 : movement_calls[k][2] = 0
    /\ \E k \in 1..2 : movement_calls[k][2] > 0

OrthoFromAbove ==
    view.drawn /\ ~view.mode_2d /\ view.mode_ortho /\ view.elevation >= 0

Flat2D == view.drawn /\ view.mode_2d

\* the vertices (0-based positions in the vertex buffer) a sequence of calls
\* submits
Submitted(calls) ==
    UNION {calls[k][1]..(calls[k][1] + calls[k][2] - 1) : k \in 1..Len(calls)}

\* C11: in orthographic mode with elevation >= 0, elevation exactly 0
\* included, and 1 <= n <= max_layers, the calls are the one range
\* (0, layer_stops[n]): the vertices of layers 0..n-1 in buffer order.
C11_OrthoAbovePlan ==
    (OrthoFromAbove /\ 1 <= num_layers_to_draw
         /\ num_layers_to_draw <= max_layers) =>
        LET n == num_layers_to_draw
        IN  /\ movement_calls = << <<0, layer_stops[n + 1]>> >>
            /\ Submitted(movement_calls) =
                   UNION {Submitted(<<LayerRange(i)>>) : i \in 0..(n - 1)}

\* two of three layers with vertices drawn at elevation exactly 0, where
\* the reverse plan would make two calls
C11_Witness ==
    /\ OrthoFromAbove
    /\ view.elevation = 0
    /\ num_layers_to_draw = 2
    /\ max_layers = 3
    /\ 0 < layer_stops[2] /\ layer_stops[2] < layer_stops[3]
    /\ layer_stops[3] < layer_stops[4]
    /\ Len(movement_calls) = 1

\* C12: in Flat2D mode with 1 <= n <= max_layers the calls are the one
\* range (layer_stops[n-1], layer_stops[n] - layer_stops[n-1]) of layer
\* n - 1, whatever mode_ortho, elevation and eye_height are; no vertex of a
\* lower layer is submitted.
C12_Flat2DPlan ==
    (Flat2D /\ 1 <= num_layers_to_draw
         /\ num_layers_to_draw <= max_layers) =>
        LET n == num_layers_to_draw
        IN  /\ movement_calls =
                   << <<layer_stops[n], layer_stops[n + 1] - layer_stops[n]>> >>
            /\ \A x \in Submitted(movement_calls) : x >= layer_stops[n]
            /\ \A i \in 0..(n - 2) :
                   Submitted(movement_calls)
                       \cap Submitted(<<LayerRange(i)>>) = {}

\* the second of three layers drawn flat, from below with the orthographic
\* flag set, the layer below it having vertices
C12_Witness ==
    /\ Flat2D
    /\ view.mode_ortho
    /\ view.elevation < 0
    /\ num_layers_to_draw = 2
    /\ max_layers = 3
    /\ layer_stops[2] > 0
    /\ movement_calls[1][2] > 0

(***************************************************************************)
(* Failing builds.                                                         *)
(***************************************************************************)
\* C13: when the progress callback raises during load_data, the exception
\* leaves load_data, and the attributes a successful earlier build has
\* published (vertices, normals, colors, layer_stops, layer_heights,
\* layer_marker_stops, movement_line_numbers, selected_lines, max_layers,
\* num_layers_to_draw) are as they were when the failed call began.
C13_CancelLeavesModel ==
    raised = "CallbackError" =>
        /\ pc = "failed"
        /\ at_entry.pc = "ready" =>
               [Attributes EXCEPT !.pc = "ready"] = at_entry

\* load_data found no starting point: no layer, or no record in the first
EmptyStream ==
    Len(model_data) = 0 \/ (start = NoMovement /\ Len(model_data[1]) = 0)

\* C14: load_data on an empty movement stream (no layers, or a first layer
\* without a record to serve as origin) fails with MalformedInputError and
\* leaves no partial buffers or index tables on the model.
C14_EmptyStreamMalformed ==
    (pc = "failed" /\ EmptyStream) =>
        /\ raised = "MalformedInputError"
        /\ [Attributes EXCEPT !.pc = at_entry.pc] = at_entry

\* C15: a build whose input has an empty layer, a first layer holding only
\* the origin included, completes without error, and layer_heights has one
\* entry per layer, the Z of the first movement for every layer that has
\* movements.
C15_EmptyLayerCompletes ==
    /\ (pc = "failed" /\ raised = "IndexError") => EmptyStream
    /\ pc = "ready" =>
           /\ Len(layer_heights) = Len(model_data)
           /\ \A i \in 1..Len(model_data) :
                  Len(model_data[i]) > 0 =>
                      layer_heights[i] = model_data[i][1].v[3]

\* C16: a build from a single layer of one movement that is not degenerate,
\* the origin having been taken off the layer first, completes with
\* layer_stops = [0, 48] and one entry in movement_line_numbers.
C16_SingleMovementBuild ==
    (/\ pc \in {"ready", "failed"}
     /\ raised # "CallbackError"
     /\ Len(model_data) = 1
     /\ Len(model_data[1]) = 1
     /\ start # NoMovement
     /\ DistSq(start.v, model_data[1][1].v) >= Eps * Eps) =>
        /\ pc = "ready"
        /\ layer_stops = <<0, 48>>
        /\ Len(movement_line_numbers) = 1
        /\ movement_line_numbers[1] = model_data[1][1].line_no

\* such a build has finished, from a movement exactly 1e-6 long
C16_Witness ==
    /\ pc = "ready"
    /\ Len(model_data) = 1
    /\ Len(model_data[1]) = 1
    /\ DistSq(start.v, model_data[1][1].v) = Eps * Eps
    /\ layer_stops = <<0, 48>>
    /\ Len(vertices) = 48

(***************************************************************************)
(* The progress callback.                                                  *)
(***************************************************************************)
\* C17: during one load_data over N layers with a callback, the callback
\* is called at most 100 times, whatever N is, and every call has the
\* arguments (layer_index + 1, N) of a layer just finished.
C17_ProgressBounded ==
    /\ Len(progress) <= 100
    /\ \A k \in 1..Len(progress) :
           /\ progress[k][2] = Len(model_data)
           /\ progress[k][1] \in 1..Len(model_data)
           /\ progress[k][1] <= layer_idx + 1

(***************************************************************************)
(* The overlays.                                                           *)
(***************************************************************************)
\* C18: for 1 <= n <= max_layers the range _display_arrows draws lies
\* inside the arrow buffer, which holds 3 vertices per movement, and is the
\* arrows of the movements of layer n - 1: the layer the main mesh shows
\* through layer_stops. Stated for the builds in which every movement has
\* its 48 vertices, where layer_stops counts 48 per movement.
C18_ArrowsOfShownLayer ==
    (view.drawn /\ arrows_enabled /\ 1 <= num_layers_to_draw
         /\ num_layers_to_draw <= max_layers
         /\ Len(vertices) = 48 * Len(movement_line_numbers)) =>
        LET n == num_layers_to_draw
        IN  /\ Len(arrows) = 3 * Len(movement_line_numbers)
            /\ Len(arrow_calls) = 1
            /\ arrow_calls[1][1] + arrow_calls[1][2] <= Len(arrows)
            /\ arrow_calls[1] = <<3 * Before(n), 3 * Len(model_data[n])>>

\* the movements (0-based) whose source line is selected
SelectedMovements ==
    {k \in 0..(Len(movement_line_numbers) - 1) :
        movement_line_numbers[k + 1] \in selected_lines}

\* C19: the highlight draws the run [k * 48, (k + 1) * 48) for exactly the
\* movements k whose source line is selected, each of them once; every such
\* run lies inside the vertex buffer and holds the vertices generated for
\* movement k, degenerate movements before k or not; an empty selection
\* draws nothing.
C19_HighlightRuns ==
    (view.drawn /\ pc = "ready") =>
        /\ Range(highlight_calls) = {<<k * 48, 48>> : k \in SelectedMovements}
        /\ Len(highlight_calls) = Cardinality(SelectedMovements)
        /\ selected_lines = {} => highlight_calls = <<>>
        /\ \A k \in SelectedMovements :
               /\ (k + 1) * 48 <= Len(vertices)
               /\ SubSeq(vertices, k * 48 + 1, (k + 1) * 48) =
                      generate_cylinder(AllMoves[k + 1].v, AllMoves[k + 2].v,
                                        cylinder_sides).vertices

(***************************************************************************)
(* The layer markers.                                                      *)
(***************************************************************************)
\* the marker vertices layer i (0-based) has added to the marker list
MarkersOf(i) ==
    SubSeq(layer_markers_list, layer_marker_stops[i + 1] + 1,
           layer_marker_stops[i + 2])

\* a marker of the shape kind, with the vertices of template, at position
MarkerAt(kind, template, position) ==
    [k \in 1..Len(template) |-> <<kind, template[k], position>>]

\* the position of the layer's entry marker, if it has one
EntryPositions(i) ==
    IF i > 0 /\ Len(model_data[i]) > 0
    THEN {model_data[i][Len(model_data[i])].v}
    ELSE IF i = 0 THEN {model_data[1][1].v}
    ELSE {}

\* C20: after each layer i of a build the marker list has grown by an entry
\* marker of 3 vertices, at the last movement of layer i - 1 when i > 0 and
\* that layer has movements, at the first movement of layer 0 when i = 0,
\* followed by an exit marker of 6 vertices at the last movement of layer i
\* exactly when the layer has more than one movement; layer_marker_stops
\* starts [0] and gets the cumulative count, so it never decreases, grows
\* by 0, 3, 6 or 9 per layer, has one entry more than there are layers and
\* ends at the length of the marker buffer.
C20_MarkerTable ==
    pc \in {"loading", "ready"} =>
        /\ Len(layer_entry_marker) = 3 /\ Len(layer_exit_marker) = 6
        /\ Len(layer_marker_stops) = layer_idx + 1
        /\ layer_marker_stops[1] = 0
        /\ layer_marker_stops[layer_idx + 1] = Len(layer_markers_list)
        /\ pc = "ready" =>
               /\ Len(layer_marker_stops) = Len(model_data) + 1
               /\ layer_marker_stops[Len(layer_marker_stops)]
                      = Len(layer_markers)
        /\ \A i \in 0..(layer_idx - 1) :
               LET layer == model_data[i + 1]
                   entry ==
                       IF EntryPositions(i) = {} THEN <<>>
                       ELSE MarkerAt("entry", layer_entry_marker,
                                     CHOOSE p \in EntryPositions(i) : TRUE)
                   exit ==
                       IF Len(layer) > 1
                       THEN MarkerAt("exit", layer_exit_marker,
                                     layer[Len(layer)].v)
                       ELSE <<>>
               IN  /\ layer_marker_stops[i + 1] <= layer_marker_stops[i + 2]
                   /\ layer_marker_stops[i + 2] - layer_marker_stops[i + 1]
                          \in {0, 3, 6, 9}
                   /\ MarkersOf(i) = entry \o exit
                   /\ Len(exit) = 6 <=> Len(layer) > 1

\* a finished build of a layer of one movement and a layer of two: the
\* marker table grows by 3 and by 9, the exit marker of the second layer
\* standing elsewhere than its entry marker
C20_Witness ==
    /\ pc = "ready"
    /\ layer_marker_stops = <<0, 3, 12>>
    /\ Len(layer_markers) = 12
    /\ layer_markers[4][1] = "entry"
    /\ layer_markers[7][1] = "exit"
    /\ layer_markers[7][3] # layer_markers[4][3]

(***************************************************************************)
(* The caller's stream.                                                    *)
(***************************************************************************)
\* C23: load_data leaves the movement stream as it was given: after a
\* build, finished or failed, the caller's layers hold the same records in
\* the same order and number as before; the first layer has not lost its
\* first record.
C23_StreamUntouched ==
    pc \in {"ready", "failed"} =>
        /\ Len(model_data) = Len(given)
        /\ \A l \in 1..Len(given) : model_data[l] = given[l]

(***************************************************************************)
(* The bracket of pick_movement.                                           *)
(***************************************************************************)
\* the positions of a call in the log of pick_movement
LogAt(call) == {i \in 1..Len(pick_log) : pick_log[i].call = call}

\* the enable bits of a context
EnableBits(g) == <<g.lighting, g.blend, g.dither>>

\* C22: whichever way pick_movement returns (hit, black pixel, short
\* pixel, pixel that does not decode, index out of range), the attribute
\* set it pushed has been popped, so the enable bits are those at entry,
\* the model matrix has been popped and the view begun has been ended; the
\* picking frame was drawn once, into a cleared buffer with lighting,
\* blending and dithering disabled, and was sampled once, after it was
\* drawn and before the view was ended and the attributes were popped.
C22_PickBracket ==
    pixel.kind # "unread" =>
        LET entry == pick_log[1].gl
        IN  /\ pick_log[1].call = "pick_movement"
            /\ pick_log[Len(pick_log)].gl = gl
            /\ gl.attrib_stack = entry.attrib_stack
            /\ gl.matrix_depth = entry.matrix_depth
            /\ gl.view_begun = entry.view_begun /\ ~gl.view_begun
            /\ EnableBits(gl) = EnableBits(entry)
            /\ Cardinality(LogAt("_render_for_picking")) = 1
            /\ Cardinality(LogAt("glReadPixels")) = 1
            /\ \A r \in LogAt("_render_for_picking"), p \in LogAt("glReadPixels") :
                   /\ r < p
                   /\ EnableBits(pick_log[r - 1].gl) = <<FALSE, FALSE, FALSE>>
                   /\ pick_log[r - 1].gl.buffer = "cleared"
                   /\ pick_log[r].gl.buffer = "picking"
                   /\ pick_log[p].gl.buffer = "picking"
                   /\ pick_log[p].gl.view_begun
                   /\ Len(pick_log[p].gl.attrib_stack)
                          = Len(entry.attrib_stack) + 1
                   /\ \A e \in LogAt("current_view.end")
                                \cup LogAt("glPopAttrib") : p < e
                   /\ \A m \in LogAt("glPopMatrix") : r < m

\* pick_movement, entered with lighting, blending and dithering enabled,
\* has returned None for a pixel that does not decode
C22_Witness ==
    /\ pixel.kind = "garbage"
    /\ pick_result = None
    /\ Len(pick_log) > 1
    /\ EnableBits(pick_log[1].gl) = <<TRUE, TRUE, TRUE>>
    /\ EnableBits(gl) = <<TRUE, TRUE, TRUE>>

(***************************************************************************)
(* A finished build in use.                                                *)
(***************************************************************************)
\* the buffers and tables of the mesh
Mesh ==
    <<vertices, normals, colors, arrows, layer_markers, layer_stops,
      layer_heights, layer_marker_stops, movement_line_numbers>>

\* C21: once a build has completed, no set_selected_lines, change of
\* num_layers_to_draw, display or pick_movement changes vertices, normals,
\* colors, arrows, layer_markers, layer_stops, layer_heights,
\* layer_marker_stops or movement_line_numbers; a step that changes
\* selected_lines changes nothing else of the model.
C21_MeshImmutable ==
    [][pc = "ready" =>
          /\ Mesh' = Mesh
          /\ selected_lines' # selected_lines =>
                 UNCHANGED <<pc, max_layers, num_layers_to_draw,
                             arrows_enabled, frame, picking>>]_vars

\* a build on which all four operations have acted: two lines are
\* selected, the slider is below the top, the frame is drawn with a
\* highlight and a pick has returned a line
C21_Witness ==
    /\ pc = "ready"
    /\ Cardinality(selected_lines) = 2
    /\ num_layers_to_draw < max_layers
    /\ view.drawn
    /\ highlight_calls # <<>>
    /\ pixel.kind = "array"
    /\ pick_result # None
    /\ Len(vertices) > 0

\* the layer (0-based) of movement k (0-based)
LayerOf(k) ==
    CHOOSE i \in 0..(Len(model_data) - 1) :
        Before(i + 1) <= k /\ k < Before(i + 1) + Len(model_data[i + 1])

\* the layers the main mesh draws: layer n - 1 in Flat2D, 0..n-1 otherwise
ShownLayers ==
    IF view.mode_2d THEN {num_layers_to_draw - 1}
    ELSE 0..(num_layers_to_draw - 1)

\* the movements (0-based) of those layers
ShownMovements ==
    {k \in 0..(Len(movement_line_numbers) - 1) : LayerOf(k) \in ShownLayers}

\* C26: for 1 <= n <= max_layers the highlight pass and the picking pass
\* draw the runs of movements of the layers the main mesh draws only, so
\* pick_movement never returns the line of a movement of a hidden layer.
\* Stated for meshes in which every movement has its run of 48 vertices.
C26_RevealRespected ==
    (pc = "ready" /\ view.drawn /\ 1 <= num_layers_to_draw
         /\ num_layers_to_draw <= max_layers
         /\ Len(vertices) = 48 * Len(movement_line_numbers)) =>
        /\ \A i \in 1..Len(highlight_calls) :
               \E k \in ShownMovements : highlight_calls[i] = <<k * 48, 48>>
        /\ (pixel.kind = "array" /\ pick_hit # None) =>
               pick_hit \in ShownMovements
        /\ pick_result # None =>
               \E k \in ShownMovements :
                   movement_line_numbers[k + 1] = pick_result

\* the vertices (0-based) one call submits
CallRange(c) == c[1]..(c[1] + c[2] - 1)

\* C24: in orthographic and perspective mode with 1 <= n <= max_layers the
\* submitted ranges are pairwise disjoint, each lies within
\* [0, len(vertices)], and their union is exactly [0, layer_stops[n]).
C24_RangesPartition ==
    (view.drawn /\ ~view.mode_2d /\ 1 <= num_layers_to_draw
         /\ num_layers_to_draw <= max_layers) =>
        LET n == num_layers_to_draw
            calls == movement_calls
        IN  /\ \A k \in 1..Len(calls) :
                   /\ 0 <= calls[k][1]
                   /\ 0 <= calls[k][2]
                   /\ calls[k][1] + calls[k][2] <= Len(vertices)
            /\ \A j, k \in 1..Len(calls) :
                   j < k => CallRange(calls[j]) \cap CallRange(calls[k]) = {}
            /\ Submitted(calls) = 0..(layer_stops[n + 1] - 1)

\* a perspective frame of three layers with vertices, the eye between the
\* first and the last: one combined range and one range of a layer above
C24_Witness ==
    /\ Perspective3D
    /\ num_layers_to_draw = 3
    /\ Len(movement_calls) >= 2
    /\ \A k \in 1..Len(movement_calls) : movement_calls[k][2] > 0
    /\ \A i \in 0..2 : layer_stops[i + 1] < layer_stops[i + 2]
    /\ layer_stops[4] = Len(vertices)

\* C25: in perspective mode every layer inside the first, ascending range
\* has a height strictly below eye_height - offset_z and every layer drawn
\* by a call of its own after it has a height >= eye_height - offset_z,
\* whatever the heights are.  Stated for the layers that have vertices.
C25_SplitAtEye ==
    (Perspective3D /\ 1 <= num_layers_to_draw
         /\ num_layers_to_draw <= max_layers) =>
        LET n == num_layers_to_draw
            h == view.eye_height - view.offset_z
            drawn == {i \in 0..(n - 1) : layer_stops[i + 1] < layer_stops[i + 2]}
            ascending == {i \in drawn :
                            layer_stops[i + 2] <= movement_calls[1][2]}
        IN  /\ \A i \in ascending : layer_heights[i + 1] < h
            /\ \A i \in drawn \ ascending : layer_heights[i + 1] >= h

\* the `done` arguments of the progress calls rise strictly, lie in 1..N and
\* start at 1
ProgressRises ==
    /\ \A k \in 1..Len(progress) : progress[k][1] \in 1..Len(model_data)
    /\ \A k \in 1..(Len(progress) - 1) : progress[k][1] < progress[k + 1][1]
    /\ Len(progress) >= 1 => progress[1][1] = 1

\* C27: during one load_data over N >= 1 layers with a callback the `done`
\* arguments rise strictly within 1..N from 1, and by the time load_data
\* returns the last progress call made is (N, N).
C27_ProgressReachesEnd ==
    callback # "none" =>
        /\ ProgressRises
        /\ (pc = "ready" /\ Len(model_data) >= 1) =>
               /\ Len(progress) >= 1
               /\ progress[Len(progress)] = <<Len(model_data), Len(model_data)>>

====
